---- MODULE Spec2Model ----
(***************************************************************************)
(* MemoriaChatProcessor (src/memory_processor.py): ingestion of a JSON     *)
(* chat-memory template into six SQLite tables through one connection,     *)
(* and the read-side queries over them.                                    *)
(*                                                                         *)
(* Text that the code joins, splits, concatenates or matches (ids, titles, *)
(* tags, names, keywords, paths) is a sequence of one-character strings;   *)
(* text that the code only copies (model, language, role, ...) is a TLA+   *)
(* string.  A JSON object is a function from keys to values, so that       *)
(* `k in d` is  k \in DOMAIN d.  Timestamps are instants (integers).       *)
(***************************************************************************)
EXTENDS Integers, Sequences, FiniteSets, TLC

VARIABLES
    db,      \* the six tables as self.conn sees them (uncommitted writes included)
    disk,    \* the six tables as committed to the database file
    files,   \* paths of the export files written under MEMORIES_DIR
    clock,   \* number of process_template calls so far; datetime.now() of a call
    uuid,    \* number of uuid4() tokens drawn so far
    ingested, \* history: id -> the template of the last call that returned that id
    last,    \* the last call: its arguments and its result or exception
    calls    \* caller -> its process_template call in progress, statement by statement

vars == <<db, disk, files, clock, uuid, ingested, last, calls>>

\* the ids process_template has returned
okIds == DOMAIN ingested

(***************************************************************************)
(* Bounds                                                                  *)
(***************************************************************************)
MaxIngest == 3
\* the longest tag list ingested where the tag strings are read back
MaxTags == 3

(***************************************************************************)
(* Text                                                                    *)
(***************************************************************************)
Comma == <<",">>
NULL == <<"NULL">>
\* a JSON number where the code expects a string (json.load accepts it)
JsonNumber == <<"<number>">>

s_a == <<"a">>
s_b == <<"b">>
s_t == <<"t">>
s_t2 == <<"t","2">>
s_tmp_x == <<"/","t","m","p","/","x">>
s_c1 == <<"c","1">>
s_c2 == <<"c","2">>
s_m1 == <<"m","1">>
s_n1 == <<"n","1">>
s_n2 == <<"n","2">>
s_n3 == <<"n","3">>
s_n9 == <<"n","9">>
s_e7 == <<"e","7">>
s_Test == <<"T","e","s","t">>
s_25302 == <<"2","5","3","0","2">>
s_82945 == <<"8","2","9","4","5">>
s_Hi == <<"H","i">>
s_AI == <<"A","I">>
s_DB == <<"D","B">>
s_ai == <<"a","i">>
s_ml == <<"m","l">>
s_llm == <<"l","l","m">>
s_sql == <<"s","q","l">>
s_GPT == <<"G","P","T">>
s_Python == <<"P","y","t","h","o","n">>
s_chat_ == <<"c","h","a","t","_">>
s_cluster_ == <<"c","l","u","s","t","e","r","_">>
s_msg_ == <<"m","s","g","_">>
s_entity_ == <<"e","n","t","i","t","y","_">>
s_edge_ == <<"e","d","g","e","_">>
s_underscore == <<"_">>
s_csv == <<".","c","s","v">>
s_html == <<".","h","t","m","l">>
MEMORIES_DIR == <<"m","e","m","o","r","i","a","s">>
PathSep == <<"/">>

Digit == <<"0","1","2","3","4","5","6","7","8","9">>

\* str(n) for 0 <= n <= 99
IntToStr(n) == IF n < 10 THEN <<Digit[n + 1]>> ELSE <<Digit[(n \div 10) + 1], Digit[(n % 10) + 1]>>

\* str(uuid.uuid4()): the n-th token drawn differs from every other one
Uuid4(n) == <<"u">> \o IntToStr(n)

\* md5(str(n))[:8] for n = 0..99, at place n + 1
Md5OfNumber ==
    <<<<"c","f","c","d","2","0","8","4">>,
      <<"c","4","c","a","4","2","3","8">>,
      <<"c","8","1","e","7","2","8","d">>,
      <<"e","c","c","b","c","8","7","e">>,
      <<"a","8","7","f","f","6","7","9">>,
      <<"e","4","d","a","3","b","7","f">>,
      <<"1","6","7","9","0","9","1","c">>,
      <<"8","f","1","4","e","4","5","f">>,
      <<"c","9","f","0","f","8","9","5">>,
      <<"4","5","c","4","8","c","c","e">>,
      <<"d","3","d","9","4","4","6","8">>,
      <<"6","5","1","2","b","d","4","3">>,
      <<"c","2","0","a","d","4","d","7">>,
      <<"c","5","1","c","e","4","1","0">>,
      <<"a","a","b","3","2","3","8","9">>,
      <<"9","b","f","3","1","c","7","f">>,
      <<"c","7","4","d","9","7","b","0">>,
      <<"7","0","e","f","d","f","2","e">>,
      <<"6","f","4","9","2","2","f","4">>,
      <<"1","f","0","e","3","d","a","d">>,
      <<"9","8","f","1","3","7","0","8">>,
      <<"3","c","5","9","d","c","0","4">>,
      <<"b","6","d","7","6","7","d","2">>,
      <<"3","7","6","9","3","c","f","c">>,
      <<"1","f","f","1","d","e","7","7">>,
      <<"8","e","2","9","6","a","0","6">>,
      <<"4","e","7","3","2","c","e","d">>,
      <<"0","2","e","7","4","f","1","0">>,
      <<"3","3","e","7","5","f","f","0">>,
      <<"6","e","a","9","a","b","1","b">>,
      <<"3","4","1","7","3","c","b","3">>,
      <<"c","1","6","a","5","3","2","0">>,
      <<"6","3","6","4","d","3","f","0">>,
      <<"1","8","2","b","e","0","c","5">>,
      <<"e","3","6","9","8","5","3","d">>,
      <<"1","c","3","8","3","c","d","3">>,
      <<"1","9","c","a","1","4","e","7">>,
      <<"a","5","b","f","c","9","e","0">>,
      <<"a","5","7","7","1","b","c","e">>,
      <<"d","6","7","d","8","a","b","4">>,
      <<"d","6","4","5","9","2","0","e">>,
      <<"3","4","1","6","a","7","5","f">>,
      <<"a","1","d","0","c","6","e","8">>,
      <<"1","7","e","6","2","1","6","6">>,
      <<"f","7","1","7","7","1","6","3">>,
      <<"6","c","8","3","4","9","c","c">>,
      <<"d","9","d","4","f","4","9","5">>,
      <<"6","7","c","6","a","1","e","7">>,
      <<"6","4","2","e","9","2","e","f">>,
      <<"f","4","5","7","c","5","4","5">>,
      <<"c","0","c","7","c","7","6","d">>,
      <<"2","8","3","8","0","2","3","a">>,
      <<"9","a","1","1","5","8","1","5">>,
      <<"d","8","2","c","8","d","1","6">>,
      <<"a","6","8","4","e","c","e","e">>,
      <<"b","5","3","b","3","a","3","d">>,
      <<"9","f","6","1","4","0","8","e">>,
      <<"7","2","b","3","2","a","1","f">>,
      <<"6","6","f","0","4","1","e","1">>,
      <<"0","9","3","f","6","5","e","0">>,
      <<"0","7","2","b","0","3","0","b">>,
      <<"7","f","3","9","f","8","3","1">>,
      <<"4","4","f","6","8","3","a","8">>,
      <<"0","3","a","f","d","b","d","6">>,
      <<"e","a","5","d","2","f","1","c">>,
      <<"f","c","4","9","0","c","a","4">>,
      <<"3","2","9","5","c","7","6","a">>,
      <<"7","3","5","b","9","0","b","4">>,
      <<"a","3","f","3","9","0","d","8">>,
      <<"1","4","b","f","a","6","b","b">>,
      <<"7","c","b","b","c","4","0","9">>,
      <<"e","2","c","4","2","0","d","9">>,
      <<"3","2","b","b","9","0","e","8">>,
      <<"d","2","d","d","e","a","1","8">>,
      <<"a","d","6","1","a","b","1","4">>,
      <<"d","0","9","b","f","4","1","5">>,
      <<"f","b","d","7","9","3","9","d">>,
      <<"2","8","d","d","2","c","7","9">>,
      <<"3","5","f","4","a","8","d","4">>,
      <<"d","1","f","e","1","7","3","d">>,
      <<"f","0","3","3","a","b","3","7">>,
      <<"4","3","e","c","5","1","7","d">>,
      <<"9","7","7","8","d","5","d","2">>,
      <<"f","e","9","f","c","2","8","9">>,
      <<"6","8","d","3","0","a","9","5">>,
      <<"3","e","f","8","1","5","4","1">>,
      <<"9","3","d","b","8","5","e","d">>,
      <<"c","7","e","1","2","4","9","f">>,
      <<"2","a","3","8","a","4","a","9">>,
      <<"7","6","4","7","9","6","6","b">>,
      <<"8","6","1","3","9","8","5","e">>,
      <<"5","4","2","2","9","a","b","f">>,
      <<"9","2","c","c","2","2","7","5">>,
      <<"9","8","d","c","e","8","3","d">>,
      <<"f","4","b","9","e","c","3","0">>,
      <<"8","1","2","b","4","b","a","2">>,
      <<"2","6","6","5","7","d","5","f">>,
      <<"e","2","e","f","5","2","4","f">>,
      <<"e","d","3","d","2","c","2","1">>,
      <<"a","c","6","2","7","a","b","1">>>>

\* hashlib.md5(name.encode()).hexdigest()[:8], tabulated for the names used
Md5Hex8(name) ==
    CASE name = <<>> -> <<"d","4","1","d","8","c","d","9">>
      [] name = s_GPT -> <<"1","7","0","3","f","9","1","c">>
      [] name = s_Python -> <<"a","7","f","5","f","3","5","4">>
      [] name = s_ml -> <<"9","8","3","0","e","1","f","8">>
      [] name = s_25302 -> <<"7","b","7","6","3","d","c","b">>
      [] name = s_82945 -> <<"7","b","7","6","3","d","c","b">>
      [] \E n \in 0..99 : name = IntToStr(n) ->
            Md5OfNumber[(CHOOSE n \in 0..99 : name = IntToStr(n)) + 1]

IsStr(v) == v # JsonNumber

\* sep.join(list) raises TypeError when an item is not a str
JoinRaises(list) == \E i \in 1..Len(list) : ~IsStr(list[i])

RECURSIVE Join(_, _)
Join(sep, list) ==
    IF list = <<>> THEN <<>>
    ELSE IF Len(list) = 1 THEN list[1]
    ELSE list[1] \o sep \o Join(sep, Tail(list))

\* d.get(k, default)
Get(d, k, default) == IF k \in DOMAIN d THEN d[k] ELSE default

\* os.path.join(MEMORIES_DIR, f"{memoria_id}{ext}"): a file name that starts
\* at the root is the path, MEMORIES_DIR is dropped
ExportPath(memoria_id, ext) ==
    IF memoria_id # <<>> /\ <<Head(memoria_id)>> = PathSep
    THEN memoria_id \o ext
    ELSE MEMORIES_DIR \o PathSep \o memoria_id \o ext

(***************************************************************************)
(* The store                                                               *)
(***************************************************************************)
Tables == {"memorias", "clusters", "entities", "graph_nodes", "graph_edges", "messages"}
ChildTables == Tables \ {"memorias"}

\* _init_database on a new database file: CREATE TABLE IF NOT EXISTS, six times
EmptyStore == [t \in Tables |-> {}]

\* INSERT OR REPLACE INTO table: the row with the same primary key goes
InsertOrReplaceDup(table, row) == table \cup {row}
InsertOrReplaceOwned(table, row) ==
    {r \in table : r.id # row.id /\ ("memoria_id" \in DOMAIN r => r.memoria_id # row.memoria_id)}
      \cup {row}
InsertOrReplace(table, row) == {r \in table : r.id # row.id} \cup {row}

\* UPDATE memorias SET filepath_csv = ?, filepath_html = ? WHERE id = ?
UpdatePaths(table, id, csv_path, html_path) ==
    {IF r.id = id THEN [r EXCEPT !.filepath_csv = csv_path, !.filepath_html = html_path] ELSE r
       : r \in table}

(***************************************************************************)
(* _validate_template                                                      *)
(***************************************************************************)
required_sections_short == <<"metadata", "conversation", "summary">>
required_sections == <<"metadata", "semantic_structure", "conversation", "summary">>

MissingSections(template) ==
    {i \in 1..Len(required_sections) : required_sections[i] \notin DOMAIN template}

\* the section the ValueError names: the first one missing, in the list's order
FirstMissing(template) ==
    required_sections[CHOOSE i \in MissingSections(template) :
                         \A j \in MissingSections(template) : i <= j]

\* setdefault of one metadata field
WithDefault(metadata, field, value) ==
    IF field \in DOMAIN metadata THEN metadata
    ELSE [k \in DOMAIN metadata \cup {field} |-> IF k = field THEN value ELSE metadata[k]]

\* the metadata after the required_metadata loop
DefaultedMetadataUntitled(metadata, now) ==
    WithDefault(WithDefault(WithDefault(metadata, "id", <<>>), "title", <<"?">>), "timestamp", now)
DefaultedMetadata(metadata, now) ==
    WithDefault(WithDefault(WithDefault(metadata, "id", <<>>), "title", <<>>), "timestamp", now)

ValidateRaises(template) == MissingSections(template) # {}

\* the template as _validate_template leaves it (it mutates its argument)
Validated(template, now) ==
    [template EXCEPT !.metadata = DefaultedMetadata(template.metadata, now)]

(***************************************************************************)
(* _save_to_database: the statements it executes, in order.  A statement   *)
(* whose arguments cannot be computed raises instead of executing.         *)
(***************************************************************************)
Insert(table, row) == [kind |-> "insert", table |-> table, row |-> row]
Raise(exc) == [kind |-> "raise", exc |-> exc]

\* number of items among list[1..i] that supply no "id"
NoIdUpTo(list, i) == Cardinality({j \in 1..i : "id" \notin DOMAIN list[j]})

MemoriaStmt(template, now) ==
    LET metadata == template.metadata
        metrics == Get(template, "metrics", <<>>)
    IN  IF JoinRaises(Get(metadata, "tags", <<>>)) THEN Raise("TypeError")
        ELSE IF "summary" \notin DOMAIN template THEN Raise("KeyError")
        ELSE Insert("memorias",
               [id |-> metadata.id,
                timestamp |-> Get(metadata, "timestamp", <<>>),
                title |-> Get(metadata, "title", <<>>),
                model |-> Get(metadata, "model", ""),
                language |-> Get(metadata, "language", ""),
                summary_brief |-> Get(template.summary, "brief", <<>>),
                problem_resolution_score |-> Get(metrics, "problem_resolution_score", 0),
                response_completeness |-> Get(metrics, "response_completeness", 0),
                technical_accuracy |-> Get(metrics, "technical_accuracy", 0),
                chat_efficiency |-> Get(metrics, "chat_efficiency", 0),
                tags |-> Join(Comma, Get(metadata, "tags", <<>>)),
                filepath_csv |-> NULL,
                filepath_html |-> NULL,
                created_at |-> now])

ClusterStmtNamed(cluster, memoria_id, token) ==
    Insert("clusters",
      [id |-> Get(cluster, "id", s_cluster_ \o Get(cluster, "name", <<>>)),
       memoria_id |-> memoria_id,
       name |-> Get(cluster, "name", <<>>),
       keywords |-> Join(Comma, Get(cluster, "keywords", <<>>)),
       importance |-> Get(cluster, "importance", 0)])
ClusterStmt(cluster, memoria_id, token) ==
    IF JoinRaises(Get(cluster, "keywords", <<>>)) THEN Raise("TypeError")
    ELSE Insert("clusters",
           [id |-> Get(cluster, "id", s_cluster_ \o Uuid4(token)),
            memoria_id |-> memoria_id,
            name |-> Get(cluster, "name", <<>>),
            keywords |-> Join(Comma, Get(cluster, "keywords", <<>>)),
            importance |-> Get(cluster, "importance", 0)])

EntityStmtPerRecord(entity, memoria_id) ==
    Insert("entities",
      [id |-> s_entity_ \o Md5Hex8(Get(entity, "name", <<>>)) \o s_underscore \o memoria_id,
       name |-> Get(entity, "name", <<>>),
       type |-> Get(entity, "type", ""),
       mentions |-> Get(entity, "mentions", 0),
       related_clusters |-> Join(Comma, Get(entity, "related_clusters", <<>>)),
       memoria_id |-> memoria_id])
EntityStmt(entity, memoria_id) ==
    IF ~IsStr(Get(entity, "name", <<>>)) THEN Raise("AttributeError")
    ELSE IF JoinRaises(Get(entity, "related_clusters", <<>>)) THEN Raise("TypeError")
    ELSE Insert("entities",
           [id |-> s_entity_ \o Md5Hex8(Get(entity, "name", <<>>)),
            name |-> Get(entity, "name", <<>>),
            type |-> Get(entity, "type", ""),
            mentions |-> Get(entity, "mentions", 0),
            related_clusters |-> Join(Comma, Get(entity, "related_clusters", <<>>)),
            memoria_id |-> memoria_id])

NodeStmtPerRecord(node, memoria_id) ==
    Insert("graph_nodes",
      [id |-> memoria_id \o s_underscore \o Get(node, "id", <<>>),
       label |-> Get(node, "label", ""),
       type |-> Get(node, "type", ""),
       weight |-> Get(node, "weight", 0),
       memoria_id |-> memoria_id])
NodeStmt(node, memoria_id) ==
    Insert("graph_nodes",
      [id |-> Get(node, "id", <<>>),
       label |-> Get(node, "label", ""),
       type |-> Get(node, "type", ""),
       weight |-> Get(node, "weight", 0),
       memoria_id |-> memoria_id])

\* idx is enumerate's index, from 0
EdgeStmt(idx, edge, memoria_id) ==
    Insert("graph_edges",
      [id |-> s_edge_ \o IntToStr(idx) \o s_underscore \o memoria_id,
       source |-> Get(edge, "source", <<>>),
       target |-> Get(edge, "target", <<>>),
       relationship |-> Get(edge, "relationship", ""),
       weight |-> Get(edge, "weight", 0),
       memoria_id |-> memoria_id])

MessageStmt(message, memoria_id, token) ==
    IF JoinRaises(Get(message, "clusters", <<>>)) \/ JoinRaises(Get(message, "key_points", <<>>))
    THEN Raise("TypeError")
    ELSE Insert("messages",
           [id |-> Get(message, "id", s_msg_ \o Uuid4(token)),
            memoria_id |-> memoria_id,
            role |-> Get(message, "role", ""),
            content |-> Get(message, "content", ""),
            timestamp |-> Get(message, "timestamp", ""),
            tokens |-> Get(message, "tokens", 0),
            clusters |-> Join(Comma, Get(message, "clusters", <<>>)),
            sentiment |-> Get(message, "sentiment", ""),
            intent |-> Get(message, "intent", ""),
            key_points |-> Join(Comma, Get(message, "key_points", <<>>))])

\* template[section], where the section is there
Section(template, section) == Get(template, section, <<>>)
TopicClusters(template) == Get(Section(template, "semantic_structure"), "topic_clusters", <<>>)
Entities(template) == Get(Section(template, "semantic_structure"), "entities", <<>>)
KnowledgeGraph(template) == Get(Section(template, "semantic_structure"), "knowledge_graph", <<>>)
Nodes(template) == Get(KnowledgeGraph(template), "nodes", <<>>)
Edges(template) == Get(KnowledgeGraph(template), "edges", <<>>)
Messages(template) == Get(Section(template, "conversation"), "messages", <<>>)

\* uuid4() tokens one call of _save_to_database draws
TokensOfSave(template) ==
    NoIdUpTo(TopicClusters(template), Len(TopicClusters(template)))
      + NoIdUpTo(Messages(template), Len(Messages(template)))

\* the four loops over semantic_structure; template["semantic_structure"] raises
\* KeyError where the section is absent
SemanticStatements(template, drawn) ==
    LET memoria_id == template.metadata.id
        cs == TopicClusters(template)
    IN  IF "semantic_structure" \notin DOMAIN template THEN <<Raise("KeyError")>>
        ELSE [i \in 1..Len(cs) |-> ClusterStmt(cs[i], memoria_id, drawn + NoIdUpTo(cs, i))]
          \o [i \in 1..Len(Entities(template)) |-> EntityStmt(Entities(template)[i], memoria_id)]
          \o [i \in 1..Len(Nodes(template)) |-> NodeStmt(Nodes(template)[i], memoria_id)]
          \o [i \in 1..Len(Edges(template)) |-> EdgeStmt(i - 1, Edges(template)[i], memoria_id)]

\* the loop over conversation.messages
MessageStatements(template, drawn) ==
    LET memoria_id == template.metadata.id
        cs == TopicClusters(template)
        ms == Messages(template)
    IN  IF "conversation" \notin DOMAIN template THEN <<Raise("KeyError")>>
        ELSE [i \in 1..Len(ms) |->
                MessageStmt(ms[i], memoria_id, drawn + NoIdUpTo(cs, Len(cs)) + NoIdUpTo(ms, i))]

\* the statements of _save_to_database(template), `drawn` tokens drawn before it
SaveStatementsChildrenFirst(template, now, drawn) ==
    SemanticStatements(template, drawn) \o MessageStatements(template, drawn)
      \o <<MemoriaStmt(template, now)>>
SaveStatements(template, now, drawn) ==
    <<MemoriaStmt(template, now)>>
      \o SemanticStatements(template, drawn) \o MessageStatements(template, drawn)

\* how many statements execute: all those before the first one that raises
Executed(stmts) ==
    IF \E i \in 1..Len(stmts) : stmts[i].kind = "raise"
    THEN (CHOOSE i \in 1..Len(stmts) :
            /\ stmts[i].kind = "raise"
            /\ \A j \in 1..(i - 1) : stmts[j].kind = "insert") - 1
    ELSE Len(stmts)

SaveRaises(stmts) == Executed(stmts) < Len(stmts)

\* the connection's view after the first n statements
RECURSIVE Execute(_, _, _)
Execute(store, stmts, n) ==
    IF n = 0 THEN store
    ELSE LET s == Execute(store, stmts, n - 1)
         IN  [s EXCEPT ![stmts[n].table] = InsertOrReplace(@, stmts[n].row)]

(***************************************************************************)
(* process_template                                                        *)
(***************************************************************************)
\* "Obter ID da memoria": metadata.id, or a fresh token where it is empty
MemoriaId(template, token) ==
    IF template.metadata.id = <<>> THEN s_chat_ \o Uuid4(token) ELSE template.metadata.id

\* template["metadata"]["id"] = memoria_id, done where metadata.id was empty
WithMemoriaIdNotWrittenBack(template, memoria_id) == template
WithMemoriaId(template, memoria_id) ==
    IF template.metadata.id = <<>>
    THEN [template EXCEPT !.metadata.id = memoria_id]
    ELSE template

\* what writing the two export files can do (the file system decides).  A failure
\* of _generate_html_view comes after the CSV file is written; one of
\* _generate_csv_export differs from it only in leaving no file at all.
ExportOutcomes == {"ok", "html_fails"}

\* what the caller makes of the outcome of process_template: a direct caller
\* has it as it is, an endpoint of the web application answers with a status
Direct == "direct"

\* return jsonify({...}) and, from `except Exception`, jsonify({...}), 500
Answered(endpoint, result) ==
    [k \in DOMAIN result \cup {"endpoint", "status"} |->
        IF k = "endpoint" THEN endpoint
        ELSE IF k = "status" THEN (IF result.raised = "none" THEN 200 ELSE 500)
        ELSE result[k]]

Respond(via, result) == IF via = Direct THEN result ELSE Answered(via, result)

ProcessTemplateVia(doc, io, via) ==
    /\ clock < MaxIngest
    /\ clock' = clock + 1
    /\ UNCHANGED calls
    /\ IF ValidateRaises(doc)
       THEN /\ last' = Respond(via, [op |-> "process_template", input |-> doc, stage |-> "validate",
                                     raised |-> "ValueError", section |-> FirstMissing(doc)])
            /\ UNCHANGED <<db, disk, files, uuid, ingested>>
       ELSE LET now == clock + 1
                needId == Validated(doc, now).metadata.id = <<>>
                memoria_id == MemoriaId(Validated(doc, now), uuid + 1)
                template == WithMemoriaId(Validated(doc, now), memoria_id)
                drawn == uuid + (IF needId THEN 1 ELSE 0)
                stmts == SaveStatements(template, now, drawn)
                done == Executed(stmts)
                saved == Execute(db, stmts, done)
                csv_path == ExportPath(memoria_id, s_csv)
                html_path == ExportPath(memoria_id, s_html)
                updated == [saved EXCEPT !.memorias = UpdatePaths(@, memoria_id, csv_path, html_path)]
            IN  /\ uuid' = drawn + TokensOfSave(template)
                /\ IF SaveRaises(stmts)
                   THEN \* the exception leaves the transaction open: no commit, no rollback
                        /\ db' = saved
                        /\ UNCHANGED <<disk, files, ingested>>
                        /\ last' = Respond(via, [op |-> "process_template", input |-> doc, stage |-> "save",
                                                 raised |-> stmts[done + 1].exc, template |-> template,
                                                 done |-> done, total |-> Len(stmts)])
                   ELSE IF io # "ok"
                   THEN \* _save_to_database committed; an export raised
                        /\ db' = saved
                        /\ disk' = saved
                        /\ files' = files \cup {csv_path}
                        /\ UNCHANGED ingested
                        /\ last' = Respond(via, [op |-> "process_template", input |-> doc, stage |-> "export",
                                                 raised |-> "OSError", template |-> template,
                                                 done |-> done, total |-> Len(stmts)])
                   ELSE /\ db' = updated
                        /\ disk' = updated
                        /\ files' = files \cup {csv_path, html_path}
                        /\ ingested' = [id \in okIds \cup {memoria_id} |->
                                           IF id = memoria_id THEN template ELSE ingested[id]]
                        /\ last' = Respond(via, [op |-> "process_template", input |-> doc, stage |-> "done",
                                                 raised |-> "none", template |-> template,
                                                 done |-> done, total |-> Len(stmts), id |-> memoria_id])

\* process_template called directly
ProcessTemplate(doc, io) == ProcessTemplateVia(doc, io, Direct)

(***************************************************************************)
(* The queries.  Each executes SELECT statements on self.conn and nothing  *)
(* else: it reads the connection's view and neither writes nor commits.    *)
(***************************************************************************)
ReadOnlyButCommits == disk' = db /\ UNCHANGED <<db, files, clock, uuid, ingested, calls>>
ReadOnly == UNCHANGED <<db, disk, files, clock, uuid, ingested, calls>>

(***************************************************************************)
(* SQL and Python helpers of the searches                                  *)
(***************************************************************************)
UpperCase == <<"A","B","C","D","E","F","G","H","I","J","K","L","M",
               "N","O","P","Q","R","S","T","U","V","W","X","Y","Z">>
LowerCase == <<"a","b","c","d","e","f","g","h","i","j","k","l","m",
               "n","o","p","q","r","s","t","u","v","w","x","y","z">>

\* SQLite folds the ASCII letters for LIKE
Fold(c) ==
    IF \E i \in 1..Len(UpperCase) : UpperCase[i] = c
    THEN LowerCase[CHOOSE i \in 1..Len(UpperCase) : UpperCase[i] = c]
    ELSE c

\* text LIKE pattern: % is any run of characters, _ any one character
LikeAnything(text, pattern) == TRUE
RECURSIVE Like(_, _)
Like(text, pattern) ==
    IF pattern = <<>> THEN text = <<>>
    ELSE IF Head(pattern) = "%"
         THEN \E k \in 0..Len(text) : Like(SubSeq(text, k + 1, Len(text)), Tail(pattern))
    ELSE IF text = <<>> THEN FALSE
    ELSE /\ (Head(pattern) = "_" \/ Fold(Head(pattern)) = Fold(Head(text)))
         /\ Like(Tail(text), Tail(pattern))

\* f"%{query}%"
Contains(query) == <<"%">> \o query \o <<"%">>

\* s.split(sep), sep one character
RECURSIVE Split(_, _)
Split(s, sep) ==
    LET at == {i \in 1..Len(s) : s[i] = sep}
    IN  IF at = {} THEN <<s>>
        ELSE LET i == CHOOSE i \in at : \A j \in at : i <= j
             IN  <<SubSeq(s, 1, i - 1)>> \o Split(SubSeq(s, i + 1, Len(s)), sep)

\* ORDER BY key DESC: every order of the rows with the keys non-increasing
\* (rows of equal key come in any order)
RECURSIVE OrderByAsc(_)
OrderByAsc(rows) ==
    IF rows = {} THEN {<<>>}
    ELSE UNION {{<<r>> \o rest : rest \in OrderByAsc(rows \ {r})}
                  : r \in {x \in rows : \A y \in rows : x.key <= y.key}}
RECURSIVE OrderByDesc(_)
OrderByDesc(rows) ==
    IF rows = {} THEN {<<>>}
    ELSE UNION {{<<r>> \o rest : rest \in OrderByDesc(rows \ {r})}
                  : r \in {x \in rows : \A y \in rows : x.key >= y.key}}

\* LIMIT n: a negative n is no limit
Limit(seq, n) ==
    IF n < 0 \/ n >= Len(seq) THEN seq ELSE SubSeq(seq, 1, n)

\* row[5].split(",") if row[5] else []
TagsOf(tags) == IF tags # <<>> /\ tags # NULL THEN Split(tags, ",") ELSE <<>>

(***************************************************************************)
(* get_stats                                                               *)
(***************************************************************************)
\* [:10] of the sorted tag counts
TopTagsLimit == 10

\* the (row, position, tag) of every non-empty tag of the split tag strings
TagOccurrences(store) ==
    UNION {UNION {{<<r.id, i, tags[i]>> : i \in {i \in 1..Len(tags) : tags[i] # <<>>}}
                    : tags \in {TagsOf(r.tags)}}
             : r \in store.memorias}

\* tag_counts: for each such tag the number of its occurrences
TagCounts(store) ==
    LET occurrences == TagOccurrences(store)
    IN  [t \in {o[3] : o \in occurrences} |-> Cardinality({o \in occurrences : o[3] = t})]

\* sorted(tag_counts.items(), key=count, reverse=True)[:10]: the sets of tags
\* that can be kept.  Tags of equal count come in the order of the rows
\* fetched, which the SELECT leaves open: every tag above the count at the
\* cut is kept, and of the tags at the cut any as many as fit
TopTagsLeast(tag_counts) ==
    LET tags == DOMAIN tag_counts
        n == IF Cardinality(tags) < TopTagsLimit THEN Cardinality(tags) ELSE TopTagsLimit
        before(c) == {t \in tags : tag_counts[t] < c}
        at(c) == {t \in tags : tag_counts[t] = c}
    IN  IF n = 0 THEN {{}}
        ELSE LET cut == CHOOSE c \in {tag_counts[t] : t \in tags} :
                            Cardinality(before(c)) < n /\ n <= Cardinality(before(c) \cup at(c))
             IN  {before(cut) \cup tied : tied \in
                    {ts \in SUBSET at(cut) : Cardinality(ts) = n - Cardinality(before(cut))}}
TopTags(tag_counts) ==
    LET tags == DOMAIN tag_counts
        n == IF Cardinality(tags) < TopTagsLimit THEN Cardinality(tags) ELSE TopTagsLimit
        before(c) == {t \in tags : tag_counts[t] > c}
        at(c) == {t \in tags : tag_counts[t] = c}
    IN  IF n = 0 THEN {{}}
        ELSE LET cut == CHOOSE c \in {tag_counts[t] : t \in tags} :
                            Cardinality(before(c)) < n /\ n <= Cardinality(before(c) \cup at(c))
             IN  {before(cut) \cup tied : tied \in
                    {ts \in SUBSET at(cut) : Cardinality(ts) = n - Cardinality(before(cut))}}

\* get_stats: the four COUNT(*), the records per model and the top tags
GetStats ==
    /\ \E tag_counts \in {TagCounts(db)} : \E top \in TopTags(tag_counts) :
          last' = [op |-> "get_stats",
                   total_memorias |-> Cardinality(db.memorias),
                   total_entities |-> Cardinality(db.entities),
                   total_clusters |-> Cardinality(db.clusters),
                   total_messages |-> Cardinality(db.messages),
                   models |-> [model \in {r.model : r \in db.memorias} |->
                                 Cardinality({r \in db.memorias : r.model = model})],
                   top_tags |-> [t \in top |-> tag_counts[t]]]
    /\ ReadOnly

\* "Formatar resultados": one dict per row fetched
Chat(m) ==
    [id |-> m.id, title |-> m.title, model |-> m.model, timestamp |-> m.timestamp,
     summary |-> m.summary_brief,
     tags |-> TagsOf(m.tags),
     html_path |-> m.filepath_html]

\* the value of a search: the chats, and behind each the row that was fetched.
\* No statement of the three methods tests limit, and SQLite raises for no
\* integer LIMIT: the call returns (raised is "none") whatever the limit
SearchResult(op, query, limit, fetched) ==
    [op |-> op, query |-> query, limit |-> limit, raised |-> "none",
     chats |-> [i \in 1..Len(fetched) |-> Chat(fetched[i].m)],
     fetched |-> fetched]

\* limit: int = 10
DefaultLimit == 10

(***************************************************************************)
(* search_chats, search_by_entity, search_by_cluster                       *)
(***************************************************************************)
\* FROM memorias m WHERE title, summary_brief or tags LIKE; key m.timestamp
ChatRows(store, query) ==
    {[m |-> m, by |-> m, key |-> m.timestamp] : m \in
        {m \in store.memorias :
            \/ Like(m.title, Contains(query))
            \/ Like(m.summary_brief, Contains(query))
            \/ Like(m.tags, Contains(query))}}

\* FROM memorias m JOIN entities e ON m.id = e.memoria_id WHERE e.name LIKE; key e.mentions
EntityRows(store, entity_name) ==
    {[m |-> j[1], by |-> j[2], key |-> j[2].mentions] : j \in
        {j \in store.memorias \X store.entities :
            j[1].id = j[2].memoria_id /\ Like(j[2].name, Contains(entity_name))}}

\* FROM memorias m JOIN clusters c ON m.id = c.memoria_id
\* WHERE c.name LIKE ? OR c.keywords LIKE ?; key c.importance
ClusterRows(store, cluster_topic) ==
    {[m |-> j[1], by |-> j[2], key |-> j[2].importance] : j \in
        {j \in store.memorias \X store.clusters :
            /\ j[1].id = j[2].memoria_id
            /\ \/ Like(j[2].name, Contains(cluster_topic))
               \/ Like(j[2].keywords, Contains(cluster_topic))}}

SearchChats(query, limit) ==
    /\ \E rows \in OrderByDesc(ChatRows(db, query)) :
          last' = SearchResult("search_chats", query, limit, Limit(rows, limit))
    /\ ReadOnly

SearchByEntity(entity_name, limit) ==
    /\ \E rows \in OrderByDesc(EntityRows(db, entity_name)) :
          last' = SearchResult("search_by_entity", entity_name, limit, Limit(rows, limit))
    /\ ReadOnly

SearchByCluster(cluster_topic, limit) ==
    /\ \E rows \in OrderByDesc(ClusterRows(db, cluster_topic)) :
          last' = SearchResult("search_by_cluster", cluster_topic, limit, Limit(rows, limit))
    /\ ReadOnly

(***************************************************************************)
(* generate_graph_data                                                     *)
(***************************************************************************)
GraphNodeDict(r) ==
    [id |-> r.id, label |-> r.label, type |-> r.type, weight |-> r.weight, memoria_id |-> r.memoria_id]
GraphEdgeDict(r) ==
    [source |-> r.source, target |-> r.target, relationship |-> r.relationship, weight |-> r.weight]

\* SELECT ... FROM graph_nodes, SELECT ... FROM graph_edges: no WHERE
GraphRowsOfOneRecord(table) ==
    {r \in table : \A other \in table : r.memoria_id = other.memoria_id}
GraphRows(table) == table

\* the two lists, each as the bag of its dicts (the SELECTs give no order)
GenerateGraphData ==
    /\ last' = [op |-> "generate_graph_data",
                nodes |-> [d \in {GraphNodeDict(r) : r \in GraphRows(db.graph_nodes)} |->
                             Cardinality({r \in GraphRows(db.graph_nodes) : GraphNodeDict(r) = d})],
                edges |-> [d \in {GraphEdgeDict(r) : r \in GraphRows(db.graph_edges)} |->
                             Cardinality({r \in GraphRows(db.graph_edges) : GraphEdgeDict(r) = d})]]
    /\ ReadOnly

(***************************************************************************)
(* generate_word_cloud_data                                                *)
(***************************************************************************)
\* LIMIT 100 of the entity query
WordCloudEntityLimit == 100
\* "Peso adicional para keywords"
KeywordWeight == 5

RECURSIVE SumMentions(_)
SumMentions(rows) ==
    IF rows = {} THEN 0
    ELSE LET r == CHOOSE r \in rows : TRUE IN r.mentions + SumMentions(rows \ {r})

\* SELECT name, SUM(mentions) FROM entities GROUP BY name
EntityTotals(store) ==
    [name \in {e.name : e \in store.entities} |->
        SumMentions({e \in store.entities : e.name = name})]

\* ORDER BY total_mentions DESC LIMIT 100: the sets of names that can be kept
\* (every name above the total at the cut, and of the names at the cut any
\* as many as fit)
TopEntities(totals) ==
    LET names == DOMAIN totals
        n == IF Cardinality(names) < WordCloudEntityLimit
             THEN Cardinality(names) ELSE WordCloudEntityLimit
        before(c) == {name \in names : totals[name] > c}
        at(c) == {name \in names : totals[name] = c}
    IN  IF n = 0 THEN {{}}
        ELSE LET cut == CHOOSE c \in {totals[name] : name \in names} :
                            Cardinality(before(c)) < n /\ n <= Cardinality(before(c) \cup at(c))
             IN  {before(cut) \cup tied : tied \in
                    {ts \in SUBSET at(cut) : Cardinality(ts) = n - Cardinality(before(cut))}}

\* the keywords of one cluster row that the loop counts
KeywordsOf(c) ==
    IF c.keywords # <<>> /\ c.keywords # NULL
    THEN LET ks == Split(c.keywords, ",") IN [i \in {i \in 1..Len(ks) : ks[i] # <<>>} |-> ks[i]]
    ELSE <<>>

RECURSIVE KeywordOccurrences(_, _)
KeywordOccurrences(clusters, word) ==
    IF clusters = {} THEN 0
    ELSE LET c == CHOOSE c \in clusters : TRUE
         IN  Cardinality({i \in DOMAIN KeywordsOf(c) : KeywordsOf(c)[i] = word})
               + KeywordOccurrences(clusters \ {c}, word)

\* word_counts after both loops
WordCountsKeywordWins(store, top) ==
    LET totals == EntityTotals(store)
        keywords == UNION {{KeywordsOf(c)[i] : i \in DOMAIN KeywordsOf(c)} : c \in store.clusters}
    IN  [word \in top \cup keywords |->
            IF word \in keywords THEN KeywordWeight * KeywordOccurrences(store.clusters, word)
            ELSE totals[word]]
WordCounts(store, top) ==
    LET totals == EntityTotals(store)
        keywords == UNION {{KeywordsOf(c)[i] : i \in DOMAIN KeywordsOf(c)} : c \in store.clusters}
    IN  [word \in top \cup keywords |->
            (IF word \in top THEN totals[word] ELSE 0)
              + KeywordWeight * KeywordOccurrences(store.clusters, word)]

GenerateWordCloudData ==
    /\ \E totals \in {EntityTotals(db)} : \E top \in TopEntities(totals) :
          last' = [op |-> "generate_word_cloud_data", words |-> WordCounts(db, top)]
    /\ ReadOnly

(***************************************************************************)
(* Documents.  Each is a parsed JSON template of the shape the code reads. *)
(***************************************************************************)
Drop(d, keys) == [k \in DOMAIN d \ keys |-> d[k]]

cluster_AI == [id |-> s_c1, name |-> s_AI, keywords |-> <<s_ml, s_llm>>, importance |-> 8]
cluster_DB == [name |-> s_DB, keywords |-> <<s_sql>>, importance |-> 3]
cluster_bad == [id |-> s_c2, name |-> s_DB, keywords |-> <<s_sql, JsonNumber>>, importance |-> 5]

entity_GPT == [name |-> s_GPT, type |-> "technology", mentions |-> 3, related_clusters |-> <<s_AI>>]
entity_Python2 == [name |-> s_Python, type |-> "language", mentions |-> 2]
entity_Python5 == [name |-> s_Python, type |-> "language", mentions |-> 5, related_clusters |-> <<s_DB, s_AI>>]

node_1 == [id |-> s_n1, label |-> "model", type |-> "concept", weight |-> 2]
node_2 == [id |-> s_n2, label |-> "data", type |-> "concept", weight |-> 1]
edge_12 == [source |-> s_n1, target |-> s_n2, relationship |-> "uses", weight |-> 1]

message_1 == [id |-> s_m1, role |-> "human", content |-> "hello", timestamp |-> "t1", tokens |-> 4,
              clusters |-> <<s_AI>>, sentiment |-> "neutral", intent |-> "ask", key_points |-> <<s_ml>>]
message_noid == [role |-> "assistant", content |-> "reply", timestamp |-> "t2", tokens |-> 7]
message_bad == [id |-> s_m1, role |-> "human", content |-> "hello", key_points |-> <<JsonNumber>>]

doc_A1 ==
    [metadata |-> [id |-> s_a, title |-> s_Test, timestamp |-> 11, model |-> "gpt",
                   language |-> "pt", tags |-> <<s_ai, s_ml>>],
     semantic_structure |-> [topic_clusters |-> <<cluster_AI>>, entities |-> <<entity_GPT>>,
                             knowledge_graph |-> [nodes |-> <<node_1, node_2>>, edges |-> <<edge_12>>]],
     conversation |-> [messages |-> <<message_1>>],
     summary |-> [brief |-> s_llm],
     metrics |-> [problem_resolution_score |-> 9, response_completeness |-> 8,
                  technical_accuracy |-> 7, chat_efficiency |-> 6]]

\* the same id as doc_A1, every Record field different, children without ids
doc_A2 ==
    [metadata |-> [id |-> s_a, title |-> s_Hi, timestamp |-> 12, model |-> "claude",
                   language |-> "en", tags |-> <<s_sql>>],
     semantic_structure |-> [topic_clusters |-> <<cluster_DB>>, entities |-> <<entity_Python5>>],
     conversation |-> [messages |-> <<message_noid>>],
     summary |-> [brief |-> s_DB],
     metrics |-> [problem_resolution_score |-> 1, response_completeness |-> 2,
                  technical_accuracy |-> 3, chat_efficiency |-> 4]]

\* no title; its cluster, entity and message ids are also used by other documents
doc_B ==
    [metadata |-> [id |-> s_b, timestamp |-> 13, model |-> "gpt", tags |-> <<>>],
     semantic_structure |-> [topic_clusters |-> <<cluster_AI>>, entities |-> <<entity_Python2>>],
     conversation |-> [messages |-> <<message_1>>],
     summary |-> [brief |-> s_Test]]

\* metadata without id, title and timestamp
doc_NoId ==
    [metadata |-> [model |-> "gpt", language |-> "pt"],
     semantic_structure |-> [topic_clusters |-> <<cluster_DB>>],
     conversation |-> <<>>,
     summary |-> <<>>]

doc_EmptyId ==
    [metadata |-> [id |-> <<>>, title |-> s_Test, timestamp |-> 14],
     semantic_structure |-> <<>>,
     conversation |-> [messages |-> <<message_noid>>],
     summary |-> [brief |-> s_Hi]]

\* a keyword that is not a string: the second cluster's join raises
doc_BadCluster ==
    [doc_A2 EXCEPT !.semantic_structure =
        [topic_clusters |-> <<cluster_AI, cluster_bad>>, entities |-> <<entity_GPT>>]]

\* a key point that is not a string: the last statement raises
doc_BadMessage ==
    [doc_B EXCEPT !.conversation = [messages |-> <<message_bad>>]]

\* a tag that is not a string: the first statement raises
doc_BadTags ==
    [doc_B EXCEPT !.metadata = [id |-> s_b, tags |-> <<s_ai, JsonNumber>>]]

\* eleven tags, nine of them twice: more tags than get_stats keeps
ManyTags ==
    <<<<"c">>, <<"d">>, <<"e">>, <<"f">>, <<"g">>, <<"h">>, <<"i">>, <<"j">>, <<"k">>,
      <<"x">>, <<"y">>,
      <<"c">>, <<"d">>, <<"e">>, <<"f">>, <<"g">>, <<"h">>, <<"i">>, <<"j">>, <<"k">>>>

doc_Tags ==
    [metadata |-> [id |-> s_t, title |-> s_Test, timestamp |-> 16, model |-> "claude", tags |-> ManyTags],
     semantic_structure |-> <<>>,
     conversation |-> <<>>,
     summary |-> [brief |-> s_Hi]]

\* an id that is an absolute path
doc_Abs ==
    [metadata |-> [id |-> s_tmp_x, title |-> s_Hi, timestamp |-> 17],
     semantic_structure |-> <<>>,
     conversation |-> <<>>,
     summary |-> <<>>]

WellFormedDocs == {doc_A1, doc_A2, doc_B, doc_NoId, doc_EmptyId, doc_Tags}
IllTypedDocs == {doc_BadCluster, doc_BadMessage, doc_BadTags}
IncompleteDocs ==
    {Drop(doc_A1, {section}) : section \in {"metadata", "semantic_structure", "conversation", "summary"}}
      \cup {Drop(doc_B, {"semantic_structure", "summary"})}

IngestDocs == WellFormedDocs \cup IllTypedDocs \cup IncompleteDocs

(***************************************************************************)
(* The processor: one connection, calls one at a time                      *)
(***************************************************************************)
\* who can call process_template: the thread that constructed the processor,
\* another thread of the same program using the same processor (a request
\* handler of the web application), and another processor on the same file
Callers == {"main", "thread", "process"}
Idle == [phase |-> "idle"]

Init ==
    /\ db = EmptyStore
    /\ disk = EmptyStore
    /\ files = {}
    /\ clock = 0
    /\ uuid = 0
    /\ ingested = <<>>
    /\ last = [op |-> "init"]
    /\ calls = [c \in Callers |-> Idle]

Ingest == \E doc \in IngestDocs, io \in ExportOutcomes : ProcessTemplate(doc, io)

Next == Ingest \/ GetStats

Spec == Init /\ [][Next]_vars

(***************************************************************************)
(* The processor under queries                                             *)
(***************************************************************************)
\* a node under the id of doc_A1's node_2, and a new node
node_2b == [id |-> s_n2, label |-> "tool", type |-> "concept", weight |-> 5]
node_3 == [id |-> s_n3, label |-> "index", type |-> "concept", weight |-> 1]
\* an edge that supplies its own id, and an edge to a node no document has
edge_23 == [id |-> s_e7, source |-> s_n2, target |-> s_n3, relationship |-> "needs", weight |-> 2]
edge_39 == [source |-> s_n3, target |-> s_n9, relationship |-> "uses", weight |-> 1]

\* two clusters that match "ai", one by name and one by keyword; an entity
\* that doc_A2 has too; a graph that shares a node id and an edge with doc_A1
doc_Q ==
    [metadata |-> [id |-> s_b, title |-> s_AI, timestamp |-> 15, model |-> "gpt", tags |-> <<s_ai>>],
     semantic_structure |->
        [topic_clusters |-> <<[name |-> s_ml, keywords |-> <<s_ai, s_sql>>, importance |-> 5],
                              [id |-> s_c2, name |-> s_AI, importance |-> 8]>>,
         entities |-> <<entity_Python2>>,
         knowledge_graph |-> [nodes |-> <<node_2b, node_3>>,
                              edges |-> <<edge_23, edge_39, edge_12>>]],
     conversation |-> <<>>,
     summary |-> [brief |-> s_DB]]

QueryDocs == {doc_A1, doc_A2, doc_Q, doc_BadCluster}

\* "p" is in both entity names, letter case apart; "_" is a LIKE wildcard
Queries == {s_ai, <<"l">>, <<"p">>, <<"_">>}
Limits == {-1, 1, DefaultLimit}

\* the export files get written here: a failed export changes no row a query reads
\* but the html_path, which is then NULL
IngestQ == \E doc \in QueryDocs : ProcessTemplate(doc, "ok")

NextQuery ==
    \/ IngestQ
    \/ \E query \in Queries, limit \in Limits : SearchChats(query, limit)
    \/ \E query \in Queries, limit \in Limits : SearchByEntity(query, limit)
    \/ \E query \in Queries, limit \in Limits : SearchByCluster(query, limit)
    \/ GetStats
    \/ GenerateGraphData
    \/ GenerateWordCloudData

SpecQuery == Init /\ [][NextQuery]_vars

(***************************************************************************)
(* The tag list from the document to the search result: process_template   *)
(* joins it into the tags column, search_chats splits the column           *)
(***************************************************************************)
\* tags without a comma, the empty string among them
TagValues == {<<>>, s_a, s_ml}
TagLists == UNION {[1..n -> TagValues] : n \in 0..MaxTags}

doc_Tagged(tags) ==
    [metadata |-> [id |-> s_a, title |-> s_Test, timestamp |-> 11, tags |-> tags],
     semantic_structure |-> <<>>,
     conversation |-> <<>>,
     summary |-> <<>>]

IngestTagged == \E tags \in TagLists : ProcessTemplate(doc_Tagged(tags), "ok")

\* the empty query matches every record
SearchAll == SearchChats(<<>>, DefaultLimit)

NextTags == IngestTagged \/ SearchAll

SpecTags == Init /\ [][NextTags]_vars

(***************************************************************************)
(* The processor with more entity names than the word cloud keeps          *)
(***************************************************************************)
\* the names "0" to "99" over two documents, each name with its own mention
\* count but "0", which has that of doc_A1's entity
NumberEntity(n) ==
    [name |-> IntToStr(n), type |-> "number", mentions |-> IF n = 0 THEN 3 ELSE 10 + n]

doc_Cloud1 ==
    [metadata |-> [id |-> s_t, title |-> s_Test, timestamp |-> 18],
     semantic_structure |-> [entities |-> [i \in 1..50 |-> NumberEntity(i - 1)]],
     conversation |-> <<>>,
     summary |-> <<>>]

\* a name with the least count that is a keyword too; a keyword that occurs
\* twice and is an entity name of the other document
doc_Cloud2 ==
    [metadata |-> [id |-> s_t2, title |-> s_Hi, timestamp |-> 19],
     semantic_structure |->
        [topic_clusters |-> <<[id |-> s_c2, name |-> s_DB,
                               keywords |-> <<<<"7">>, s_ml, <<"7">>>>, importance |-> 4]>>,
         entities |-> [i \in 1..50 |-> NumberEntity(49 + i)]
                        \o <<[name |-> s_ml, type |-> "topic", mentions |-> 1]>>],
     conversation |-> <<>>,
     summary |-> <<>>]

CloudDocs == {doc_Cloud1, doc_Cloud2, doc_A1, doc_Q}

IngestCloud == \E doc \in CloudDocs : ProcessTemplate(doc, "ok")

NextCloud == IngestCloud \/ GenerateWordCloudData

SpecCloud == Init /\ [][NextCloud]_vars

(***************************************************************************)
(* Callers at the same time.  process_template taken one statement at a    *)
(* time: the INSERT OR REPLACE statements of _save_to_database, its        *)
(* commit, and the UPDATE of the two paths with its commit.  sqlite3       *)
(* decides what a statement does when another caller is at work: a         *)
(* connection is usable only from the thread that opened it, and a         *)
(* connection writes only while no other connection holds a transaction    *)
(* with writes in it.                                                      *)
(***************************************************************************)
\* sqlite3.connect(self.db_path) leaves check_same_thread at its default: every
\* use of self.conn from a thread other than the constructing one raises
WrongThreadNever(c) == FALSE
WrongThread(c) == c = "thread"

\* a second processor has its own connection; "main" and "thread" use self.conn
OwnConnection(c) == c = "process"

\* the uncommitted view of the second processor's connection, if it is writing
Writing(c) == "view" \in DOMAIN calls[c]

\* the write lock of the database file is with another connection
LockedOut(c) == IF OwnConnection(c) THEN db # disk ELSE Writing("process")

\* the tables as the connection of caller c sees them
ViewOf(c) ==
    IF OwnConnection(c) THEN (IF Writing(c) THEN calls[c].view ELSE disk) ELSE db

\* two documents with the same record id and the same child ids, every row different
doc_One ==
    [metadata |-> [id |-> s_a, title |-> s_Test, timestamp |-> 11, tags |-> <<s_ai>>],
     semantic_structure |-> [topic_clusters |-> <<cluster_AI>>],
     conversation |-> [messages |-> <<message_1>>],
     summary |-> [brief |-> s_llm]]
doc_Two ==
    [metadata |-> [id |-> s_a, title |-> s_Hi, timestamp |-> 12, tags |-> <<s_sql>>],
     semantic_structure |->
        [topic_clusters |-> <<[id |-> s_c1, name |-> s_DB, keywords |-> <<s_sql>>,
                               importance |-> 3]>>],
     conversation |-> [messages |-> <<[id |-> s_m1, role |-> "assistant", content |-> "reply"]>>],
     summary |-> [brief |-> s_DB]]

RaceDocs == {doc_One, doc_Two}

\* process_template up to the first statement of _save_to_database
BeginCall(c, doc) ==
    /\ calls[c] = Idle
    /\ clock < MaxIngest
    /\ ~ValidateRaises(doc)
    /\ clock' = clock + 1
    /\ LET now == clock + 1
           memoria_id == MemoriaId(Validated(doc, now), uuid + 1)
           template == WithMemoriaId(Validated(doc, now), memoria_id)
           drawn == uuid + (IF Validated(doc, now).metadata.id = <<>> THEN 1 ELSE 0)
           stmts == SaveStatements(template, now, drawn)
       IN  IF WrongThread(c)
           THEN \* self.conn.cursor() raises before any statement
                /\ last' = [op |-> "process_template", caller |-> c, input |-> doc,
                            stage |-> "save", raised |-> "ProgrammingError",
                            template |-> template, done |-> 0, total |-> Len(stmts)]
                /\ uuid' = drawn
                /\ UNCHANGED calls
           ELSE /\ calls' = [calls EXCEPT ![c] = [phase |-> "save", input |-> doc,
                                                   template |-> template,
                                                   stmts |-> stmts, pc |-> 0]]
                /\ uuid' = drawn + TokensOfSave(template)
                /\ last' = [op |-> "begin", caller |-> c, input |-> doc, raised |-> "none"]
    /\ UNCHANGED <<db, disk, files, ingested>>

\* the next cursor.execute of _save_to_database
ExecuteStatement(c) ==
    /\ calls[c].phase = "save"
    /\ calls[c].pc < Len(calls[c].stmts)
    /\ LET call == calls[c]
           stmt == call.stmts[call.pc + 1]
           failed(exc) == [op |-> "process_template", caller |-> c, input |-> call.input,
                           stage |-> "save", raised |-> exc, template |-> call.template,
                           done |-> call.pc, total |-> Len(call.stmts)]
       IN  IF stmt.kind = "raise"
           THEN /\ last' = failed(stmt.exc)
                /\ calls' = [calls EXCEPT ![c] = Idle]
                /\ UNCHANGED db
           ELSE IF LockedOut(c)
           THEN \* the busy timeout ran out: "database is locked"
                /\ last' = failed("OperationalError")
                /\ calls' = [calls EXCEPT ![c] = Idle]
                /\ UNCHANGED db
           ELSE /\ last' = [op |-> "statement", caller |-> c, input |-> call.input,
                            raised |-> "none"]
                /\ IF OwnConnection(c)
                   THEN /\ calls' = [calls EXCEPT ![c] =
                                       [phase |-> "save", input |-> call.input,
                                        template |-> call.template, stmts |-> call.stmts,
                                        pc |-> call.pc + 1,
                                        view |-> [ViewOf(c) EXCEPT ![stmt.table] =
                                                    InsertOrReplace(@, stmt.row)]]]
                        /\ UNCHANGED db
                   ELSE /\ calls' = [calls EXCEPT ![c].pc = @ + 1]
                        /\ db' = [db EXCEPT ![stmt.table] = InsertOrReplace(@, stmt.row)]
    /\ UNCHANGED <<disk, files, clock, uuid, ingested>>

\* self.conn.commit() at the end of _save_to_database
CommitSave(c) ==
    /\ calls[c].phase = "save"
    /\ calls[c].pc = Len(calls[c].stmts)
    /\ disk' = ViewOf(c)
    /\ db' = IF OwnConnection(c) /\ db = disk THEN ViewOf(c) ELSE db
    /\ calls' = [calls EXCEPT ![c] = [phase |-> "update", input |-> calls[c].input,
                                      template |-> calls[c].template]]
    /\ last' = [op |-> "commit", caller |-> c, input |-> calls[c].input, raised |-> "none"]
    /\ UNCHANGED <<files, clock, uuid, ingested>>

\* the two exports, then UPDATE memorias SET filepath_csv, filepath_html and commit
BackfillPaths(c) ==
    /\ calls[c].phase = "update"
    /\ LET template == calls[c].template
           memoria_id == template.metadata.id
           csv_path == ExportPath(memoria_id, s_csv)
           html_path == ExportPath(memoria_id, s_html)
           updated == [ViewOf(c) EXCEPT
                         !.memorias = UpdatePaths(@, memoria_id, csv_path, html_path)]
       IN  /\ files' = files \cup {csv_path, html_path}
           /\ IF LockedOut(c)
              THEN /\ last' = [op |-> "process_template", caller |-> c,
                               input |-> calls[c].input, stage |-> "update",
                               raised |-> "OperationalError", template |-> template]
                   /\ UNCHANGED <<db, disk, ingested>>
              ELSE /\ db' = updated
                   /\ disk' = updated
                   /\ ingested' = [id \in okIds \cup {memoria_id} |->
                                      IF id = memoria_id THEN template ELSE ingested[id]]
                   /\ last' = [op |-> "process_template", caller |-> c,
                               input |-> calls[c].input, stage |-> "done",
                               raised |-> "none", template |-> template, id |-> memoria_id]
    /\ calls' = [calls EXCEPT ![c] = Idle]
    /\ UNCHANGED <<clock, uuid>>

NextRace ==
    \E c \in Callers :
        \/ \E doc \in RaceDocs : BeginCall(c, doc)
        \/ ExecuteStatement(c)
        \/ CommitSave(c)
        \/ BackfillPaths(c)

SpecRace == Init /\ [][NextRace]_vars

(***************************************************************************)
(* The two ingestion endpoints of the web application (src/app.py).  Both  *)
(* write the document to a file under templates/ and hand it to the one    *)
(* processor of the program; the answer is a JSON body and a status.       *)
(***************************************************************************)
\* a request handler runs on the thread that built the processor or, where
\* the server gives each request its own thread, on another one
Handlers == {"main", "thread"}

\* the early returns: jsonify({...}), 400
Refused(endpoint, why) ==
    [op |-> endpoint, endpoint |-> endpoint, stage |-> "request", raised |-> "none",
     reason |-> why, status |-> 400]

\* processor.process_template(filepath) and generate_index_html(processor)
\* inside the handler's try; content is what the file holds
HandlerIngests(endpoint, c, content, io) ==
    IF content.kind = "undecodable"
    THEN \* json.load raises JSONDecodeError, re-raised as ValueError
         /\ clock < MaxIngest
         /\ clock' = clock + 1
         /\ last' = Answered(endpoint, [op |-> "process_template", input |-> content,
                                        stage |-> "parse", raised |-> "ValueError"])
         /\ UNCHANGED <<db, disk, files, uuid, ingested, calls>>
    ELSE IF WrongThread(c) /\ ~ValidateRaises(content.doc)
    THEN \* self.conn.cursor() raises in _save_to_database
         /\ clock < MaxIngest
         /\ clock' = clock + 1
         /\ uuid' = uuid + (IF Validated(content.doc, clock + 1).metadata.id = <<>> THEN 1 ELSE 0)
         /\ last' = Answered(endpoint, [op |-> "process_template", input |-> content.doc,
                                        stage |-> "save", raised |-> "ProgrammingError",
                                        done |-> 0])
         /\ UNCHANGED <<db, disk, files, ingested, calls>>
    ELSE ProcessTemplateVia(content.doc, io, endpoint)

\* POST /api/upload
UploadFile(c, upload, io) ==
    IF upload.kind \in {"no_file", "empty_name", "not_allowed"}
    THEN last' = Refused("upload_file", upload.kind) /\ ReadOnly
    ELSE HandlerIngests("upload_file", c, upload, io)

\* POST /api/process_json
ProcessJsonData(c, body, io) ==
    IF body.kind = "not_json"
    THEN last' = Refused("process_json_data", body.kind) /\ ReadOnly
    ELSE IF body.kind = "undecodable"
    THEN \* request.get_json() raises inside the try
         /\ last' = Answered("process_json_data",
                             [op |-> "process_json_data", input |-> body, stage |-> "parse",
                              raised |-> "BadRequest"])
         /\ ReadOnly
    ELSE HandlerIngests("process_json_data", c, body, io)

HttpDocs == {doc_A1, doc_B, doc_BadCluster, Drop(doc_A1, {"summary"})}

Uploads ==
    {[kind |-> k] : k \in {"no_file", "empty_name", "not_allowed", "undecodable"}}
      \cup {[kind |-> "document", doc |-> d] : d \in HttpDocs}

Bodies ==
    {[kind |-> k] : k \in {"not_json", "undecodable"}}
      \cup {[kind |-> "document", doc |-> d] : d \in HttpDocs}

NextHttp ==
    \E c \in Handlers, io \in ExportOutcomes :
        \/ \E upload \in Uploads : UploadFile(c, upload, io)
        \/ \E body \in Bodies : ProcessJsonData(c, body, io)

SpecHttp == Init /\ [][NextHttp]_vars

(***************************************************************************)
(* Entities by name: three records with their own ids, names in common,    *)
(* and two names ("25302", "82945") whose md5 digests begin alike          *)
(***************************************************************************)
doc_N1 ==
    [metadata |-> [id |-> s_a, title |-> s_Test, timestamp |-> 11],
     semantic_structure |->
        [entities |-> <<entity_GPT, entity_Python2,
                        [name |-> s_25302, type |-> "number", mentions |-> 2]>>],
     conversation |-> <<>>,
     summary |-> <<>>]
doc_N2 ==
    [metadata |-> [id |-> s_b, title |-> s_Hi, timestamp |-> 12],
     semantic_structure |->
        [entities |-> <<entity_Python5, [name |-> s_82945, type |-> "number", mentions |-> 4]>>],
     conversation |-> <<>>,
     summary |-> <<>>]
doc_N3 ==
    [metadata |-> [id |-> s_t, title |-> s_AI, timestamp |-> 13],
     semantic_structure |->
        [entities |-> <<[name |-> s_GPT, type |-> "technology", mentions |-> 1]>>],
     conversation |-> <<>>,
     summary |-> <<>>]

NameDocs == {doc_N1, doc_N2, doc_N3}
NameQueries == {s_Python, s_GPT, s_25302}

IngestNamed == \E doc \in NameDocs : ProcessTemplate(doc, "ok")

NextNames ==
    \/ IngestNamed
    \/ \E entity_name \in NameQueries : SearchByEntity(entity_name, DefaultLimit)
    \/ GetStats

SpecNames == Init /\ [][NextNames]_vars

(***************************************************************************)
(* The export paths: ingestions, failing ones among them, of documents     *)
(* one of which has an absolute path for id                                *)
(***************************************************************************)
PathDocs == {doc_A1, doc_A2, doc_B, doc_Abs, doc_BadMessage}

IngestPaths == \E doc \in PathDocs, io \in ExportOutcomes : ProcessTemplate(doc, io)

SpecPaths == Init /\ [][IngestPaths]_vars

(***************************************************************************)
(* Ingesting again: a document with two clusters and two messages without  *)
(* ids and one cluster with, next to doc_A1 and doc_A2                     *)
(***************************************************************************)
doc_Repeat ==
    [metadata |-> [id |-> s_t, title |-> s_Test, timestamp |-> 18],
     semantic_structure |->
        [topic_clusters |-> <<cluster_DB, [id |-> s_c2, name |-> s_AI, importance |-> 2],
                              [name |-> s_ml, importance |-> 1]>>],
     conversation |-> [messages |-> <<message_noid, [role |-> "human", content |-> "again"]>>],
     summary |-> [brief |-> s_Hi]]

RepeatDocs == {doc_Repeat, doc_A1, doc_A2, doc_B}

IngestRepeat == \E doc \in RepeatDocs, io \in ExportOutcomes : ProcessTemplate(doc, io)

SpecRepeat == Init /\ [][IngestRepeat]_vars

(***************************************************************************)
(* Properties of ingestion                                                 *)
(***************************************************************************)
\* a step that is one call of process_template
IngestStep == clock' # clock

\* the four sections the contract requires of a document
ContractSections == {"metadata", "semantic_structure", "conversation", "summary"}

HasSections(doc) == ContractSections \subseteq DOMAIN doc

\* the document supplies a non-empty metadata.id
SuppliesId(doc) ==
    /\ "metadata" \in DOMAIN doc
    /\ "id" \in DOMAIN doc.metadata
    /\ doc.metadata.id # <<>>

RowsWithId(table, id) == {r \in table : r.id = id}

\* the Record row holds the content of the template (after its defaulting)
CarriesContent(r, template) ==
    /\ r.timestamp = template.metadata.timestamp
    /\ r.title = template.metadata.title
    /\ r.model = Get(template.metadata, "model", "")
    /\ r.language = Get(template.metadata, "language", "")
    /\ r.summary_brief = Get(template.summary, "brief", <<>>)
    /\ r.problem_resolution_score = Get(Get(template, "metrics", <<>>), "problem_resolution_score", 0)
    /\ r.response_completeness = Get(Get(template, "metrics", <<>>), "response_completeness", 0)
    /\ r.technical_accuracy = Get(Get(template, "metrics", <<>>), "technical_accuracy", 0)
    /\ r.chat_efficiency = Get(Get(template, "metrics", <<>>), "chat_efficiency", 0)
    /\ r.tags = Join(Comma, Get(template.metadata, "tags", <<>>))

\* C1: an ingestion that succeeds for a document with a non-empty id leaves
\* exactly one Record row under that id, the row carries that document's
\* content, and where the id was already in the table (a second ingestion)
\* the number of Record rows is the same as before.
C1_UpsertKeepsOneRow ==
    [][(IngestStep /\ last'.stage = "done" /\ SuppliesId(last'.input)) =>
          LET id == last'.input.metadata.id
          IN  /\ Cardinality(RowsWithId(db'.memorias, id)) = 1
              /\ \A r \in RowsWithId(db'.memorias, id) : CarriesContent(r, last'.template)
              /\ (RowsWithId(db.memorias, id) # {} =>
                     Cardinality(db'.memorias) = Cardinality(db.memorias))]_vars

\* doc_A2 was ingested over doc_A1 (whose message m1 stays under "a"): one row, the new title
C1_Witness ==
    /\ last.op = "process_template"
    /\ last.stage = "done"
    /\ last.input = doc_A2
    /\ \E m \in db.messages : m.id = s_m1 /\ m.memoria_id = s_a
    /\ \E r \in db.memorias : r.id = s_a /\ r.title = s_Hi /\ r.tags = s_sql

\* C2: for a document that lacks a required section, process_template raises
\* the validation error, the error names a section the document lacks, and no
\* table changes, neither in the connection's view nor in the committed file.
C2_MissingSectionWritesNothing ==
    [][(IngestStep /\ ~HasSections(last'.input)) =>
          /\ last'.stage = "validate"
          /\ last'.raised = "ValueError"
          /\ last'.section \notin DOMAIN last'.input
          /\ last'.section \in ContractSections
          /\ db' = db
          /\ disk' = disk]_vars

\* a rejected document arriving at a store that already holds rows
C2_Witness ==
    /\ last.op = "process_template"
    /\ last.stage = "validate"
    /\ last.section = "semantic_structure"
    /\ db.memorias # {}
    /\ db.clusters # {}

\* C3: a Record and its children are created as a unit: after any call of
\* process_template either none or all of the document's rows were written.
C3_AtomicIngestion ==
    (last.op = "process_template" /\ last.stage # "validate") =>
        (last.done = 0 \/ last.done = last.total)

\* C4: get_stats().total_memorias is the number of distinct ids for which
\* process_template completed successfully.
C4_TotalCountsSuccessfulIds ==
    last.op = "get_stats" => last.total_memorias = Cardinality(okIds)

\* C5: every child row's memoria_id is the id of a Record row of the store,
\* in the connection's view and in the committed file.
ChildrenOwned(store) ==
    \A t \in ChildTables : \A r \in store[t] : RowsWithId(store.memorias, r.memoria_id) # {}

C5_ChildrenReferenceRecords == ChildrenOwned(db) /\ ChildrenOwned(disk)

\* every child table holds rows, and a cluster has passed from record a to record b
C5_Witness ==
    /\ \A t \in ChildTables : db[t] # {}
    /\ \E c \in db.clusters : c.id = s_c1 /\ c.memoria_id = s_b
    /\ RowsWithId(db.memorias, s_a) # {}

\* the rows the template's children must have produced, all owned by id
ChildrenUnder(store, template, id) ==
    /\ \A i \in 1..Len(TopicClusters(template)) :
          \E r \in store.clusters :
             r.memoria_id = id /\ r.name = Get(TopicClusters(template)[i], "name", <<>>)
    /\ \A i \in 1..Len(Entities(template)) :
          \E r \in store.entities :
             r.memoria_id = id /\ r.name = Get(Entities(template)[i], "name", <<>>)
    /\ \A i \in 1..Len(Nodes(template)) :
          \E r \in store.graph_nodes :
             r.memoria_id = id /\ r.id = Get(Nodes(template)[i], "id", <<>>)
    /\ \A i \in 1..Len(Edges(template)) :
          \E r \in store.graph_edges :
             r.memoria_id = id /\ r.source = Get(Edges(template)[i], "source", <<>>)
    /\ \A i \in 1..Len(Messages(template)) :
          \E r \in store.messages :
             r.memoria_id = id /\ r.content = Get(Messages(template)[i], "content", "")

\* C6: the id returned is metadata.id where the document supplies a non-empty
\* one, else a token no Record row had, written back into the template; in
\* both cases it is the key of the one Record row written, the owner of the
\* children and the name of the export files, and an ingestion without an id
\* adds a Record row.
C6_ReturnedIdIsRecordKey ==
    [][(IngestStep /\ last'.stage = "done") =>
          /\ (SuppliesId(last'.input) => last'.id = last'.input.metadata.id)
          /\ (~SuppliesId(last'.input) =>
                 /\ RowsWithId(db.memorias, last'.id) = {}
                 /\ last'.id \notin okIds
                 /\ last'.id # <<>>
                 /\ Cardinality(db'.memorias) = Cardinality(db.memorias) + 1)
          /\ last'.template.metadata.id = last'.id
          /\ Cardinality(RowsWithId(db'.memorias, last'.id)) = 1
          /\ \A r \in RowsWithId(db'.memorias, last'.id) :
                /\ CarriesContent(r, last'.template)
                /\ r.filepath_csv = ExportPath(last'.id, s_csv)
                /\ r.filepath_html = ExportPath(last'.id, s_html)
          /\ ChildrenUnder(db', last'.template, last'.id)
          /\ {ExportPath(last'.id, s_csv), ExportPath(last'.id, s_html)} \subseteq files']_vars

\* two documents without an id were ingested: two generated Record rows
C6_Witness ==
    /\ last.op = "process_template"
    /\ last.stage = "done"
    /\ ~SuppliesId(last.input)
    /\ Cardinality({r \in db.memorias : SubSeq(r.id, 1, Len(s_chat_)) = s_chat_}) = 2
    /\ Cardinality(okIds) = 2

C8_ClusterResultsByImportance ==
    last.op = "search_by_cluster" =>
        /\ \A i, j \in 1..Len(last.fetched) :
              i < j => last.fetched[i].by.importance >= last.fetched[j].by.importance
        /\ \A i \in 1..Len(last.fetched) :
              /\ last.fetched[i].by \in db.clusters
              /\ last.chats[i].id = last.fetched[i].by.memoria_id

\* three results: two of equal importance, then a smaller one
C8_Witness ==
    /\ last.op = "search_by_cluster"
    /\ Len(last.fetched) >= 3
    /\ \E i, j \in 1..Len(last.fetched) :
          i < j /\ last.fetched[i].by.importance > last.fetched[j].by.importance
    /\ \E i, j \in 1..Len(last.fetched) :
          i < j /\ last.fetched[i].by.importance = last.fetched[j].by.importance

\* the mentions the ingested documents give to the entity name, summed over the records
RECURSIVE IngestedMentions(_, _)
IngestedMentions(ids, name) ==
    IF ids = {} THEN 0
    ELSE LET id == CHOOSE id \in ids : TRUE
             es == Entities(ingested[id])
         IN  SumMentions({[i |-> i, mentions |-> Get(es[i], "mentions", 0)] :
                             i \in {i \in 1..Len(es) : Get(es[i], "name", <<>>) = name}})
               + IngestedMentions(ids \ {id}, name)

IngestedNames ==
    UNION {{Get(Entities(ingested[id])[i], "name", <<>>) : i \in 1..Len(Entities(ingested[id]))}
             : id \in DOMAIN ingested}

\* C9: for each entity name of the ingested records, the word cloud reports
\* (keyword weight apart) the sum of the name's mention counts over all the
\* ingested records that have an entity of that name.
C9_WordCloudSumsAcrossRecords ==
    last.op = "generate_word_cloud_data" =>
        \A name \in IngestedNames :
            /\ name \in DOMAIN last.words
            /\ last.words[name] - KeywordWeight * KeywordOccurrences(db.clusters, name)
                 = IngestedMentions(DOMAIN ingested, name)

QueryOps == {"search_chats", "search_by_entity", "search_by_cluster",
             "get_stats", "generate_graph_data", "generate_word_cloud_data"}

\* C10: a step of any of the six queries leaves the six tables as they were,
\* in the connection's view and in the committed file.
C10_QueriesReadOnly ==
    [][last'.op \in QueryOps => (db' = db /\ disk' = disk)]_vars

\* a search that returned rows of a transaction left open by a failed ingestion
C10_Witness ==
    /\ last.op = "search_by_cluster"
    /\ Len(last.chats) >= 1
    /\ db # disk
    /\ \E i \in 1..Len(last.fetched) : last.fetched[i].by \notin disk.clusters

SearchOps == {"search_chats", "search_by_entity", "search_by_cluster"}

\* C11: each of the three searches returns at most `limit` results, for
\* every store state, query string and limit passed.
C11_LimitBoundsResults ==
    last.op \in SearchOps => Len(last.chats) <= last.limit

\* C12: a search called with a negative limit is rejected with an error
\* instead of returning results.
C12_NegativeLimitRejected ==
    (last.op \in SearchOps /\ last.limit < 0) => last.raised # "none"

\* q occurs in text, letter case apart
HasSubstring(text, q) ==
    \E i \in 0..(Len(text) - Len(q)) : \A j \in 1..Len(q) : Fold(text[i + j]) = Fold(q[j])

\* q has none of the characters that LIKE reads as wildcards
WildcardFree(q) == \A i \in 1..Len(q) : q[i] \notin {"%", "_"}

\* the table the search reads is empty, or no row of it has the (plain) query
\* in a field the search looks at
NothingMatches(op, q) ==
    CASE op = "search_chats" ->
            /\ WildcardFree(q) \/ db.memorias = {}
            /\ \A m \in db.memorias :
                  ~HasSubstring(m.title, q) /\ ~HasSubstring(m.summary_brief, q) /\ ~HasSubstring(m.tags, q)
      [] op = "search_by_entity" ->
            /\ WildcardFree(q) \/ db.entities = {}
            /\ \A e \in db.entities : ~HasSubstring(e.name, q)
      [] op = "search_by_cluster" ->
            /\ WildcardFree(q) \/ db.clusters = {}
            /\ \A c \in db.clusters : ~HasSubstring(c.name, q) /\ ~HasSubstring(c.keywords, q)

\* C13: no query fails when nothing matches or the store is empty: a search
\* returns the empty list, get_stats returns zero counts and empty models and
\* top_tags, generate_graph_data and generate_word_cloud_data return empty
\* node, edge and word lists.
C13_EmptyResultsNeverFail ==
    /\ (last.op \in SearchOps /\ NothingMatches(last.op, last.query)) =>
           (last.raised = "none" /\ last.chats = <<>>)
    /\ last.op = "get_stats" =>
           /\ db.memorias = {} =>
                  (last.total_memorias = 0 /\ DOMAIN last.models = {} /\ DOMAIN last.top_tags = {})
           /\ db.entities = {} => last.total_entities = 0
           /\ db.clusters = {} => last.total_clusters = 0
           /\ db.messages = {} => last.total_messages = 0
    /\ last.op = "generate_graph_data" =>
           /\ db.graph_nodes = {} => DOMAIN last.nodes = {}
           /\ db.graph_edges = {} => DOMAIN last.edges = {}
    /\ (last.op = "generate_word_cloud_data" /\ db.entities = {} /\ db.clusters = {}) =>
           DOMAIN last.words = {}

\* a search for a plain name on a store that holds entities, none of them matching
C13_Witness ==
    /\ last.op = "search_by_entity"
    /\ WildcardFree(last.query)
    /\ db.entities # {}
    /\ db.memorias # {}
    /\ last.chats = <<>>

\* the Record rows that hold q in the title, the brief summary or the tag string
RecordsContaining(q) ==
    {m \in db.memorias :
        HasSubstring(m.title, q) \/ HasSubstring(m.summary_brief, q) \/ HasSubstring(m.tags, q)}

Min(a, b) == IF a < b THEN a ELSE b

\* C14: search_chats(query, limit) returns exactly the records whose title,
\* brief summary or comma-joined tag string contains query as a
\* case-insensitive substring, cut to the `limit` records of greatest
\* timestamp, in non-increasing timestamp order.
C14_SearchChatsExactMatches ==
    last.op = "search_chats" =>
        LET n == Len(last.chats)
            returned == {last.chats[i].id : i \in 1..n}
            matching == RecordsContaining(last.query)
        IN  /\ Cardinality(returned) = n
            /\ returned \subseteq {m.id : m \in matching}
            /\ last.limit >= 0 => n = Min(last.limit, Cardinality(matching))
            /\ \A i, j \in 1..n : i < j => last.chats[i].timestamp >= last.chats[j].timestamp
            /\ \A m \in matching : \A i \in 1..n :
                  m.id \notin returned => m.timestamp <= last.chats[i].timestamp

\* C15: search_by_entity(name, limit) returns records joined to entity rows
\* they own whose name contains `name` as a substring, in an order in which
\* the mention count of the matching entity row never increases.
C15_EntityResultsByMentions ==
    last.op = "search_by_entity" =>
        /\ \A i \in 1..Len(last.fetched) :
              /\ last.fetched[i].by \in db.entities
              /\ last.fetched[i].m \in db.memorias
              /\ last.fetched[i].by.memoria_id = last.fetched[i].m.id
              /\ last.chats[i].id = last.fetched[i].m.id
              /\ HasSubstring(last.fetched[i].by.name, last.query)
        /\ \A i, j \in 1..Len(last.fetched) :
              i < j => last.fetched[i].by.mentions >= last.fetched[j].by.mentions

(***************************************************************************)
(* Properties of get_stats, the graph and the tag strings                  *)
(***************************************************************************)
\* the tags (strings) that the documents offered for ingestion carry
DocumentTags ==
    UNION {{Get(doc.metadata, "tags", <<>>)[i] :
               i \in {i \in 1..Len(Get(doc.metadata, "tags", <<>>)) :
                         IsStr(Get(doc.metadata, "tags", <<>>)[i])}}
             : doc \in {d \in IngestDocs : "metadata" \in DOMAIN d}}

\* the places of a tag string where tag stands between commas or the ends
PlacesOf(tag, tags) ==
    {i \in 1..(Len(tags) - Len(tag) + 1) :
        /\ SubSeq(tags, i, i + Len(tag) - 1) = tag
        /\ (i = 1 \/ tags[i - 1] = ",")
        /\ (i + Len(tag) - 1 = Len(tags) \/ tags[i + Len(tag)] = ",")}

\* the occurrences of tag across the tag lists of all Record rows
OccurrencesOf(tag) ==
    Cardinality(UNION {{<<r.id, i>> : i \in PlacesOf(tag, r.tags)} : r \in db.memorias})

\* C16: top_tags of get_stats holds at most 10 tags, each with the number of
\* its occurrences across the tag lists of all Record rows, and no tag left
\* out occurs more often than a tag that is in (nor is a tag left out while
\* fewer than 10 are in).
C16_TopTagsMostFrequent ==
    last.op = "get_stats" =>
        LET top == DOMAIN last.top_tags
        IN  /\ Cardinality(top) <= 10
            /\ \A t \in top : last.top_tags[t] = OccurrencesOf(t) /\ last.top_tags[t] > 0
            /\ \A t \in DocumentTags \ top : \A u \in top : OccurrencesOf(t) <= last.top_tags[u]
            /\ \A t \in DocumentTags \ top : OccurrencesOf(t) > 0 => Cardinality(top) = 10

\* ten tags are in, a tag that occurs is left out, and counts 1 and 2 are both in
C16_Witness ==
    /\ last.op = "get_stats"
    /\ Cardinality(DOMAIN last.top_tags) = 10
    /\ \E t \in DocumentTags \ DOMAIN last.top_tags : OccurrencesOf(t) > 0
    /\ \E t, u \in DOMAIN last.top_tags : last.top_tags[t] = 1 /\ last.top_tags[u] = 2
    /\ Cardinality(db.memorias) >= 2

\* the dict shows the fields that generate_graph_data selects of the row
ShowsNode(d, r) ==
    /\ d.id = r.id /\ d.label = r.label /\ d.type = r.type
    /\ d.weight = r.weight /\ d.memoria_id = r.memoria_id
ShowsEdge(d, r) ==
    /\ d.source = r.source /\ d.target = r.target
    /\ d.relationship = r.relationship /\ d.weight = r.weight

\* C17: generate_graph_data returns every graph_nodes row and every
\* graph_edges row of the store, whatever record owns it: each row is shown
\* by a dict of the result, and each dict is there as many times as there
\* are rows it shows (none left out, none twice).
C17_GraphDataIsEveryRow ==
    last.op = "generate_graph_data" =>
        /\ \A r \in db.graph_nodes : \E d \in DOMAIN last.nodes : ShowsNode(d, r)
        /\ \A d \in DOMAIN last.nodes :
              last.nodes[d] = Cardinality({r \in db.graph_nodes : ShowsNode(d, r)})
        /\ \A r \in db.graph_edges : \E d \in DOMAIN last.edges : ShowsEdge(d, r)
        /\ \A d \in DOMAIN last.edges :
              last.edges[d] = Cardinality({r \in db.graph_edges : ShowsEdge(d, r)})

\* nodes of two records, and an edge dict that two edge rows give
C17_Witness ==
    /\ last.op = "generate_graph_data"
    /\ \E d, e \in DOMAIN last.nodes : d.memoria_id = s_a /\ e.memoria_id = s_b
    /\ \E d \in DOMAIN last.edges : last.edges[d] = 2
    /\ Cardinality(db.graph_edges) >= 4

\* the graph_edges rows that hold the edge's fields under the id
EdgeRowsUnder(id, edge) ==
    {r \in db.graph_edges :
        /\ r.id = id
        /\ r.source = Get(edge, "source", <<>>)
        /\ r.target = Get(edge, "target", <<>>)}

\* C18: after a successful ingestion, an edge of the document that supplies
\* an id is stored under that id, and an edge that supplies none is stored
\* under the id built from its position in the list and the record id.
C18_EdgeKeepsSuppliedId ==
    (last.op = "process_template" /\ last.stage = "done") =>
        \A i \in 1..Len(Edges(last.template)) :
            LET edge == Edges(last.template)[i]
            IN  IF "id" \in DOMAIN edge
                THEN EdgeRowsUnder(edge.id, edge) # {}
                ELSE EdgeRowsUnder(s_edge_ \o IntToStr(i - 1) \o s_underscore \o last.id, edge) # {}

\* C19: the source and the target of every graph_edges row are ids of
\* graph_nodes rows of the store.
C19_EdgesReferenceNodes ==
    \A e \in db.graph_edges :
        /\ \E n \in db.graph_nodes : n.id = e.source
        /\ \E n \in db.graph_nodes : n.id = e.target

\* C20: a tag list whose values hold no comma comes back from the store as it
\* went in: what search_chats returns as the tags of a record is the tag list
\* of the document ingested under its id, also for the empty list and for
\* lists with empty strings.
C20_TagsRoundTrip ==
    last.op = "search_chats" =>
        \A i \in 1..Len(last.chats) :
            last.chats[i].id \in DOMAIN ingested =>
                last.chats[i].tags = ingested[last.chats[i].id].metadata.tags

(***************************************************************************)
(* Properties of the exports, the ids and the rows kept                    *)
(***************************************************************************)
\* the path of the file named by id, with the extension, in the records directory
InRecordsDir(id, ext) == <<"m","e","m","o","r","i","a","s","/">> \o id \o ext

\* C21: when an ingestion of id X returns successfully, Record row X has
\* non-null CSV and HTML paths, each the file named by X inside the records
\* directory (re-ingestions included); the paths are written after the
\* Record row and all child rows: an ingestion that stops earlier leaves the
\* row it wrote without paths.
C21_PathsBackfilledAfterRows ==
    [][IngestStep =>
          /\ last'.stage = "done" =>
                /\ last'.done = last'.total
                /\ \A r \in RowsWithId(db'.memorias, last'.id) :
                      /\ r.filepath_csv # NULL /\ r.filepath_html # NULL
                      /\ r.filepath_csv = InRecordsDir(last'.id, <<".","c","s","v">>)
                      /\ r.filepath_html = InRecordsDir(last'.id, <<".","h","t","m","l">>)
          /\ last'.stage \in {"save", "export"} =>
                \A r \in RowsWithId(db'.memorias, last'.template.metadata.id) :
                    last'.done >= 1 => (r.filepath_csv = NULL /\ r.filepath_html = NULL)]_vars

\* a step that ingests, successfully, the document whose successful
\* ingestion was the step before
ReingestStep ==
    /\ IngestStep
    /\ last.op = "process_template" /\ last.stage = "done"
    /\ last'.stage = "done" /\ last'.input = last.input
    /\ SuppliesId(last'.input)

\* C22: an entity's id depends on its name alone (a row written for a name
\* has the id of the row the store had for that name), and ingesting the
\* same document again leaves the entities table exactly as it was: the
\* same rows, ids and field values.
C22_EntityReingestIdempotent ==
    [][IngestStep =>
          /\ \A e \in db.entities, f \in db'.entities : e.name = f.name => e.id = f.id
          /\ ReingestStep => db'.entities = db.entities]_vars

\* doc_A2 was just ingested, not for the first time (each time adds its
\* id-less message), and its entity row is there, once
C22_Witness ==
    /\ last.op = "process_template" /\ last.stage = "done" /\ last.input = doc_A2
    /\ Cardinality({m \in db.messages : m.memoria_id = s_a /\ m.content = "reply"}) >= 2
    /\ Cardinality({e \in db.entities : e.name = s_Python}) = 1
    /\ \E e \in db.entities : e.name = s_Python /\ e.memoria_id = s_a /\ e.mentions = 5

(***************************************************************************)
(* Properties of the word cloud                                            *)
(***************************************************************************)
\* the summed mention count of the entity rows named w
MentionsOf(w) ==
    Cardinality(UNION {{<<e.id, k>> : k \in 1..e.mentions} : e \in {e \in db.entities : e.name = w}})

\* the occurrences of w as a keyword over all cluster rows
KeywordPlaces(w) ==
    Cardinality(UNION {{<<c.id, i>> : i \in PlacesOf(w, c.keywords)} : c \in db.clusters})

EntityNames == {e.name : e \in db.entities}

\* the other entity names with a greater total, and with one not smaller
NamesAbove(total, w) == {n \in DOMAIN total : n # w /\ total[n] > total[w]}
NamesNotBelow(total, w) == {n \in DOMAIN total : n # w /\ total[n] >= total[w]}

\* the keywords (strings) of the documents offered for ingestion
DocumentKeywords ==
    UNION {UNION {{Get(TopicClusters(doc)[c], "keywords", <<>>)[i] :
                     i \in {i \in 1..Len(Get(TopicClusters(doc)[c], "keywords", <<>>)) :
                               IsStr(Get(TopicClusters(doc)[c], "keywords", <<>>)[i])}}
                    : c \in 1..Len(TopicClusters(doc))}
             : doc \in CloudDocs \cup QueryDocs}

\* C23: the value the word cloud gives a word w is the summed mention count
\* of the entity rows named w, if w is among the 100 entity names of highest
\* total, else 0, plus 5 times the occurrences of w as a keyword over all
\* cluster rows; every such entity name and every keyword is in the list (once).
C23_WordCloudValues ==
    last.op = "generate_word_cloud_data" =>
        \A total \in {[w \in EntityNames |-> MentionsOf(w)]} :
        \A entityPart \in {[w \in DOMAIN last.words |-> last.words[w] - 5 * KeywordPlaces(w)]} :
            /\ \A w \in DOMAIN last.words :
                  /\ w \in EntityNames \/ KeywordPlaces(w) > 0
                  /\ IF w \notin EntityNames \/ Cardinality(NamesAbove(total, w)) >= 100
                     THEN entityPart[w] = 0
                     ELSE IF Cardinality(NamesNotBelow(total, w)) < 100
                     THEN entityPart[w] = total[w]
                     ELSE entityPart[w] \in {0, total[w]}
            /\ \A w \in EntityNames :
                  Cardinality(NamesNotBelow(total, w)) < 100 => w \in DOMAIN last.words
            /\ \A w \in DocumentKeywords : KeywordPlaces(w) > 0 => w \in DOMAIN last.words
            /\ Cardinality({w \in DOMAIN last.words \cap EntityNames : entityPart[w] = total[w]})
                  = Min(100, Cardinality(EntityNames))

\* more than 100 entity names: the name of least total is in as a keyword
\* only, an entity name that is a keyword twice has both parts, and of two
\* names with the total at the cut one is in and one is out
C23_Witness ==
    /\ last.op = "generate_word_cloud_data"
    /\ Cardinality(EntityNames) > 100
    /\ s_ml \in DOMAIN last.words /\ last.words[s_ml] = 10 /\ MentionsOf(s_ml) = 1
    /\ last.words[<<"7">>] = 27
    /\ s_GPT \in DOMAIN last.words /\ <<"0">> \notin DOMAIN last.words

(***************************************************************************)
(* Properties of ingestions at the same time                               *)
(***************************************************************************)
\* the child rows _save_to_database writes for doc, each with its table
ChildRows(doc) ==
    LET stmts == SaveStatements(Validated(doc, 0), 0, 0)
    IN  {[table |-> stmts[i].table, row |-> stmts[i].row] : i \in 2..Len(stmts)}

\* the Record row of doc's id carries doc's title
RecordOf(store, doc) ==
    \E r \in store.memorias : r.id = doc.metadata.id /\ r.title = doc.metadata.title

\* the Record row is of one document, a child row under that id of the other
Mixed(store) ==
    \E d1 \in RaceDocs : \E d2 \in RaceDocs \ {d1} :
        /\ RecordOf(store, d1)
        /\ \E s \in ChildRows(d2) : s.row \in store[s.table]

\* another caller is between two statements of its _save_to_database
MidSave(c) ==
    \E c2 \in Callers \ {c} :
        /\ calls[c2].phase = "save"
        /\ calls[c2].pc \in 1..(Len(calls[c2].stmts) - 1)

C25_BadInputIs4xxStorageIs5xx ==
    "endpoint" \in DOMAIN last =>
        /\ last.stage \in {"parse", "validate"} => last.status \in 400..499
        /\ last.stage \in {"save", "export"} => last.status \in 500..599

(***************************************************************************)
(* Properties of the entity rows by name                                   *)
(***************************************************************************)
\* the last entity of the document with the name of its i-th one
LastNamed(template, i) ==
    \A j \in (i + 1)..Len(Entities(template)) :
        Get(Entities(template)[j], "name", <<>>) # Get(Entities(template)[i], "name", <<>>)

\* C26: there is at most one entity row per entity name; after an ingestion
\* the row of each of the document's entity names has the ingested record as
\* owner and the document's mention count, whoever owned it before, and
\* search_by_entity returns a record only for an entity row it owns now;
\* get_stats().total_entities is the number of distinct entity names ever
\* ingested.
C26_OneEntityRowPerName ==
    /\ \A e \in db.entities, f \in db.entities : e.name = f.name => e = f
    /\ last.op = "process_template" /\ last.stage = "done" =>
          \A i \in 1..Len(Entities(last.template)) :
              LastNamed(last.template, i) =>
                  \E e \in db.entities :
                      /\ e.name = Get(Entities(last.template)[i], "name", <<>>)
                      /\ e.memoria_id = last.id
                      /\ e.mentions = Get(Entities(last.template)[i], "mentions", 0)
    /\ last.op = "search_by_entity" =>
          \A i \in 1..Len(last.chats) :
              \E e \in db.entities :
                  e.memoria_id = last.chats[i].id /\ HasSubstring(e.name, last.query)
    /\ last.op = "get_stats" => last.total_entities = Cardinality(IngestedNames)

(***************************************************************************)
(* Properties of the graph node rows                                       *)
(***************************************************************************)
\* the last node of the document with the id of its i-th one
LastWithId(template, i) ==
    \A j \in (i + 1)..Len(Nodes(template)) :
        Get(Nodes(template)[j], "id", <<>>) # Get(Nodes(template)[i], "id", <<>>)

\* C27: no two graph node rows have the same id, so a node id is owned by at
\* most one record; after an ingestion the row of each node id of the
\* document has the document's label, type and weight and the ingested
\* record as owner, also where the id was stored for another record before.
C27_NodeIdOwnedByOneRecord ==
    /\ \A n \in db.graph_nodes, m \in db.graph_nodes : n.id = m.id => n = m
    /\ last.op = "process_template" /\ last.stage = "done" =>
          \A i \in 1..Len(Nodes(last.template)) :
              LastWithId(last.template, i) =>
                  \E n \in db.graph_nodes :
                      /\ n.id = Get(Nodes(last.template)[i], "id", <<>>)
                      /\ n.label = Get(Nodes(last.template)[i], "label", "")
                      /\ n.type = Get(Nodes(last.template)[i], "type", "")
                      /\ n.weight = Get(Nodes(last.template)[i], "weight", 0)
                      /\ n.memoria_id = last.id

\* doc_A1 put node n2 under record a, then doc_Q was ingested as record b
\* with a node n2 of its own: the one row n2 is doc_Q's and belongs to b
C27_Witness ==
    /\ clock = 2
    /\ last.op = "process_template" /\ last.stage = "done" /\ last.input = doc_Q
    /\ s_a \in DOMAIN ingested
    /\ \E i \in 1..Len(Nodes(ingested[s_a])) : Nodes(ingested[s_a])[i] = node_2
    /\ \E n \in db.graph_nodes :
          n.id = s_n2 /\ n.label = "tool" /\ n.weight = 5 /\ n.memoria_id = s_b
    /\ \A n \in db.graph_nodes : n.id = s_n2 => n.memoria_id # s_a

(***************************************************************************)
(* Properties of what re-ingestion leaves behind                           *)
(***************************************************************************)
\* table t of store `after` has every row of `before`, unless a row of the
\* same primary key was written in its place
KeepsRows(before, after, t) ==
    /\ Cardinality(after[t]) >= Cardinality(before[t])
    /\ \A r \in before[t] :
          r \notin after[t] => \E w \in after[t] \ before[t] : w.id = r.id

\* C28: no step, ingestion or query, removes a row: the row count of each
\* of the six tables never decreases, and a row whose primary key the step
\* did not write again is still there as it was, owner included.
C28_NoRowRemoved ==
    [][\A t \in Tables : KeepsRows(db, db', t) /\ KeepsRows(disk, disk', t)]_vars

\* record a was ingested from doc_A1 and then from doc_A2, which has no node,
\* no edge and neither cluster c1 nor message m1: those rows of doc_A1 are
\* still there and still of record a
C28_Witness ==
    /\ clock = 2
    /\ last.op = "process_template" /\ last.stage = "done" /\ last.input = doc_A2
    /\ \E c \in db.clusters : c.id = s_c1 /\ c.memoria_id = s_a
    /\ \E m \in db.messages : m.id = s_m1 /\ m.memoria_id = s_a
    /\ \E n \in db.graph_nodes : n.id = s_n1 /\ n.memoria_id = s_a
    /\ \E e \in db.graph_edges : e.source = s_n1 /\ e.memoria_id = s_a
    /\ Cardinality(db.clusters) = 2 /\ Cardinality(db.messages) = 2

(***************************************************************************)
(* Properties of children without ids                                      *)
(***************************************************************************)
OwnedBy(table, memoria_id) == {r \in table : r.memoria_id = memoria_id}

\* C29: ingesting the same document again adds, for that record, one cluster
\* row per cluster without an id and one message row per message without an
\* id (n ingestions leave n*k and n*m such rows), leaves the clusters table
\* (the messages table) as it was only when no cluster (no message) lacks
\* its id, and leaves one Record row of that id.
C29_IdlessChildrenMultiply ==
    [][ReingestStep =>
          \A k \in {NoIdUpTo(TopicClusters(last'.template), Len(TopicClusters(last'.template)))} :
          \A m \in {NoIdUpTo(Messages(last'.template), Len(Messages(last'.template)))} :
              /\ Cardinality(OwnedBy(db'.clusters, last'.id))
                    = Cardinality(OwnedBy(db.clusters, last'.id)) + k
              /\ Cardinality(OwnedBy(db'.messages, last'.id))
                    = Cardinality(OwnedBy(db.messages, last'.id)) + m
              /\ k = 0 <=> db'.clusters = db.clusters
              /\ m = 0 <=> db'.messages = db.messages
              /\ Cardinality({r \in db'.memorias : r.id = last'.id}) = 1]_vars

\* doc_Repeat (k = 2, m = 2, one cluster with an id) was ingested three times
\* and nothing else: 3*2 + 1 cluster rows, 3*2 message rows, one Record row
C29_Witness ==
    /\ clock = 3
    /\ last.op = "process_template" /\ last.stage = "done" /\ last.input = doc_Repeat
    /\ Cardinality(db.memorias) = 1
    /\ Cardinality(db.clusters) = 7 /\ Cardinality(OwnedBy(db.clusters, s_t)) = 7
    /\ Cardinality({c \in db.clusters : c.name = s_DB}) = 3
    /\ Cardinality({c \in db.clusters : c.name = s_ml}) = 3
    /\ Cardinality(db.messages) = 6 /\ Cardinality(OwnedBy(db.messages, s_t)) = 6

(***************************************************************************)
(* Properties of search_by_cluster's result list                           *)
(***************************************************************************)
\* the cluster rows of stored records whose name or keyword string has topic
ClustersMatching(topic) ==
    {c \in db.clusters :
        /\ \E m \in db.memorias : m.id = c.memoria_id
        /\ HasSubstring(c.name, topic) \/ HasSubstring(c.keywords, topic)}

\* C30: search_by_cluster(topic, limit) returns one result per cluster row
\* whose name or keyword string has the topic, each the record owning that
\* row, so a record with k such rows is there k times: the number of results
\* is min(limit, number of matching cluster rows).
C30_OneResultPerClusterRow ==
    last.op = "search_by_cluster" =>
        /\ Len(last.chats) = Min(last.limit, Cardinality(ClustersMatching(last.query)))
        /\ \A i \in 1..Len(last.chats) :
              /\ last.fetched[i].by \in ClustersMatching(last.query)
              /\ last.chats[i].id = last.fetched[i].by.memoria_id
        /\ \A i, j \in 1..Len(last.chats) :
              i # j => last.fetched[i].by # last.fetched[j].by

====
